---- MODULE Spec2Model ----
(***************************************************************************)
(* Game of Life with OpenMP (src/main.c): the two boards, the generation   *)
(* advance in its sequential and its OpenMP form, board_reset, and the     *)
(* main loop that polls events, advances and draws.                        *)
(*                                                                         *)
(* The program's board is 40 x 30; the model checks a board of             *)
(* kBoardWidth x kBoardHeight cells with the same code.                    *)
(***************************************************************************)
EXTENDS Integers, Sequences, FiniteSets, TLC

\* ------------------------------------------------------------------------
\* Bounds of the model
\* ------------------------------------------------------------------------
kBoardWidth == 5
kBoardHeight == 3
NumWorkers == 2
MaxEvents == 4

\* ------------------------------------------------------------------------
\* Program constants
\* ------------------------------------------------------------------------
kMaxWidth == kBoardWidth - 1
kMaxHeight == kBoardHeight - 1
kTileSize == 20
Yes == 1
No == 0
SDL_BUTTON_LEFT == 1
SDL_BUTTON_RIGHT == 3
\* size of a rendered caption (TTF_RenderText_Blended), the same for the
\* three buttons in the model
kTextW == 20
kTextH == 10

Rows == 0 .. (kBoardHeight - 1)
Cols == 0 .. (kBoardWidth - 1)
Cell == {0, 1}
Boards == [Rows -> [Cols -> Cell]]
AllDead == [i \in Rows |-> [j \in Cols |-> 0]]

VARIABLES
    argv,              \* the command line arguments after the program name
    computeBoardFunc,  \* game.computeBoardFunc
    drawBoardFunc,     \* game.drawBoardFunc
    board,             \* game.board, the current buffer
    temp,              \* game.temp, the next buffer
    quit,              \* game.quit
    playing,           \* game.playing
    active,            \* the active flag of startBtn, stopBtn, resetBtn
    mouseButtonDown,   \* local of do_main_loop
    pc,                \* position in main / do_main_loop
    polled,            \* number of events SDL_PollEvent has delivered
    op,                \* what the last step did to the grid
    call,              \* the buffers as they were when the running advance was called
    todo,              \* iterations of the running parallel for not yet started
    running,           \* the rows whose board_compute_thread call is running in a worker
    ci,                \* the row index i of the copy loop of board_compute_openmp
    writes,            \* per row of temp, the stores of the running parallel advance:
                       \* 0 none, 1 one, 2 more than one
    copies,            \* per cell of board, the stores of its copy phase, likewise
    square,            \* the SDL_Rect square shared by the team of draw_board_openmp
    blits,             \* the places of the SDL_BlitSurface calls of the running drawBoardFunc
    di,                \* the row index i of the loop of draw_board_openmp
    dtodo,             \* iterations of its parallel for not yet started
    dset               \* iterations that have stored square and not yet blitted

vars == <<argv, computeBoardFunc, drawBoardFunc, board, temp, quit, playing,
          active, mouseButtonDown, pc, polled, op, call, todo, running, ci,
          writes, copies, square, blits, di, dtodo, dset>>

NoCall == [made |-> FALSE]

\* no store counted
NoWrites == [i \in Rows |-> 0]
NoCopies == [i \in Rows |-> [j \in Cols |-> 0]]

\* one more store on a count of stores
Again(n) == IF n = 0 THEN 1 ELSE 2

\* square before draw_board_openmp has stored a place in it
NoSquare == [x |-> 0, y |-> 0]

\* ------------------------------------------------------------------------
\* board_compute_thread: one row of the next generation
\* ------------------------------------------------------------------------

\* count with the board taken as a torus: coordinates past an edge wrap
\* around to the opposite edge (used to test C3)
count_wrap(b, height, width) ==
    LET up == (height + kBoardHeight - 1) % kBoardHeight
        down == (height + 1) % kBoardHeight
        lt == (width + kBoardWidth - 1) % kBoardWidth
        rt == (width + 1) % kBoardWidth
    IN b[up][lt] + b[up][width] + b[up][rt] + b[height][lt] + b[height][rt]
       + b[down][lt] + b[down][width] + b[down][rt]

\* count with the bottom right block a copy of the bottom left one (used to
\* test C6)
count_bottom_left_twice(b, height, width) ==
    LET top == IF height # 0
               THEN (IF width # 0 THEN b[height - 1][width - 1] ELSE 0)
                    + b[height - 1][width]
                    + (IF width < kMaxWidth THEN b[height - 1][width + 1] ELSE 0)
               ELSE 0
        left == IF width # 0 THEN b[height][width - 1] ELSE 0
        right == IF width < kMaxWidth THEN b[height][width + 1] ELSE 0
        bottom == IF height < kMaxHeight
                  THEN (IF width # 0 THEN b[height + 1][width - 1] ELSE 0)
                       + b[height + 1][width]
                       + (IF width # 0 THEN b[height + 1][width - 1] ELSE 0)
                  ELSE 0
    IN top + left + right + bottom

\* the neighbour count of lines 172-220
count(b, height, width) ==
    LET top == IF height # 0
               THEN (IF width # 0 THEN b[height - 1][width - 1] ELSE 0)
                    + b[height - 1][width]
                    + (IF width < kMaxWidth THEN b[height - 1][width + 1] ELSE 0)
               ELSE 0
        left == IF width # 0 THEN b[height][width - 1] ELSE 0
        right == IF width < kMaxWidth THEN b[height][width + 1] ELSE 0
        bottom == IF height < kMaxHeight
                  THEN (IF width # 0 THEN b[height + 1][width - 1] ELSE 0)
                       + b[height + 1][width]
                       + (IF width < kMaxWidth THEN b[height + 1][width + 1] ELSE 0)
                  ELSE 0
    IN top + left + right + bottom

\* the rule without the test of the cell itself (used to test C2)
nextState_no_self(self, n) == IF n = 2 \/ n = 3 THEN 1 ELSE 0

\* the rule with survival on 3 only (used to test C5)
nextState_survive3(self, n) ==
    IF self = 0 /\ n = 3 THEN 1
    ELSE IF self = 1 /\ n = 3 THEN 1
    ELSE 0

\* the if / else if / else of lines 222-236: the value stored in temp
nextState(self, n) ==
    IF self = 0 /\ n = 3 THEN 1
    ELSE IF self = 1 /\ (n = 2 \/ n = 3) THEN 1
    ELSE 0

\* the loop over width: every cell of row height of temp is written, from b
board_compute_thread(b, t, height) ==
    [t EXCEPT ![height] =
        [width \in Cols |-> nextState(b[height][width], count(b, height, width))]]

\* ------------------------------------------------------------------------
\* board_compute: the sequential advance
\* ------------------------------------------------------------------------
RECURSIVE ComputeRows(_, _, _)
\* for(i=0; i < kBoardHeight; i++) board_compute_thread(board, temp, i)
ComputeRows(b, t, i) ==
    IF i < kBoardHeight
    THEN ComputeRows(b, board_compute_thread(b, t, i), i + 1)
    ELSE t

RECURSIVE CopyCells(_, _, _, _)
\* the copy loops: board[i][j] = temp[i][j], row-major
CopyCells(b, t, i, j) ==
    IF i >= kBoardHeight THEN b
    ELSE IF j >= kBoardWidth THEN CopyCells(b, t, i + 1, 0)
    ELSE CopyCells([b EXCEPT ![i][j] = t[i][j]], t, i, j + 1)

RECURSIVE InPlaceRows(_, _)
InPlaceRows(b, i) ==
    IF i < kBoardHeight
    THEN InPlaceRows(board_compute_thread(b, b, i), i + 1)
    ELSE b

\* an advance without the second buffer: every row is computed from the
\* board and stored in the board (used to test C4)
board_compute_inplace(b, t) == [board |-> InPlaceRows(b, 0), temp |-> InPlaceRows(b, 0)]

board_compute(b, t) ==
    LET t1 == ComputeRows(b, t, 0)
    IN [board |-> CopyCells(b, t1, 0, 0), temp |-> t1]

\* ------------------------------------------------------------------------
\* board_reset
\* ------------------------------------------------------------------------
RECURSIVE ResetCells(_, _, _, _)
ResetCells(b, t, i, j) ==
    IF i >= kBoardHeight THEN [board |-> b, temp |-> t]
    ELSE IF j >= kBoardWidth THEN ResetCells(b, t, i + 1, 0)
    ELSE ResetCells([b EXCEPT ![i][j] = 0], [t EXCEPT ![i][j] = 0], i, j + 1)

\* a reset that clears the board only (used to test C7)
board_reset_board_only(b, t) == [board |-> ResetCells(b, t, 0, 0).board, temp |-> t]

board_reset(b, t) == ResetCells(b, t, 0, 0)

\* ------------------------------------------------------------------------
\* main: the choice of the compute and draw functions from the arguments
\* ------------------------------------------------------------------------
ArgvSet == {<< >>, <<"--openmp">>, <<"--thread">>, <<"--opengl">>, <<"--fast">>,
            <<"--openmp", "--thread">>}

\* main with the OpenMP functions as the default (used to test C10)
main_openmp_default(args) ==
    IF Len(args) = 0
    THEN [ok |-> TRUE, computeBoardFunc |-> "board_compute_openmp",
          drawBoardFunc |-> "draw_board_openmp"]
    ELSE IF Len(args) = 1 /\ args[1] = "--openmp"
    THEN [ok |-> TRUE, computeBoardFunc |-> "board_compute_openmp",
          drawBoardFunc |-> "draw_board_openmp"]
    ELSE IF Len(args) = 1 /\ args[1] = "--thread"
    THEN [ok |-> TRUE, computeBoardFunc |-> "board_compute",
          drawBoardFunc |-> "draw_board_multithread"]
    ELSE IF Len(args) = 1 /\ args[1] = "--opengl"
    THEN [ok |-> TRUE, computeBoardFunc |-> "board_compute", drawBoardFunc |-> "draw_board"]
    ELSE [ok |-> FALSE, computeBoardFunc |-> "unset", drawBoardFunc |-> "unset"]

main(args) ==
    IF Len(args) = 0
    THEN [ok |-> TRUE, computeBoardFunc |-> "board_compute", drawBoardFunc |-> "draw_board"]
    ELSE IF Len(args) = 1
    THEN IF args[1] = "--openmp"
         THEN [ok |-> TRUE, computeBoardFunc |-> "board_compute_openmp",
               drawBoardFunc |-> "draw_board_openmp"]
         ELSE IF args[1] = "--thread"
         THEN [ok |-> TRUE, computeBoardFunc |-> "board_compute",
               drawBoardFunc |-> "draw_board_multithread"]
         ELSE IF args[1] = "--opengl"
         THEN [ok |-> TRUE, computeBoardFunc |-> "board_compute",
               drawBoardFunc |-> "draw_board"]
         ELSE [ok |-> FALSE, computeBoardFunc |-> "unset", drawBoardFunc |-> "unset"]
    ELSE [ok |-> FALSE, computeBoardFunc |-> "unset", drawBoardFunc |-> "unset"]

\* ------------------------------------------------------------------------
\* Buttons
\* ------------------------------------------------------------------------
\* clip_rect of a button surface: the caption plus 10 (lines 91, 98)
SurfW == kTextW + 10
SurfH == kTextH + 10

\* button_set_position calls of initialize_game
position(btn) ==
    IF btn = "startBtn" THEN [x |-> 5, y |-> 5]
    ELSE IF btn = "stopBtn" THEN [x |-> SurfW + 10, y |-> 5]
    ELSE [x |-> SurfW + SurfW + 15, y |-> 5]

\* button_is_clicked comparing the x coordinate only (used to test C19)
button_is_clicked_x_only(btn, x, y) ==
    /\ x > position(btn).x
    /\ x < position(btn).x + SurfW

button_is_clicked(btn, x, y) ==
    /\ x > position(btn).x
    /\ x < position(btn).x + SurfW
    /\ y > position(btn).y
    /\ y < position(btn).y + SurfH

\* ------------------------------------------------------------------------
\* initialize_game
\* ------------------------------------------------------------------------
\* what malloc may hand out for the rows of the two boards
Garbage == {[i \in Rows |-> [j \in Cols |-> v]] : v \in {0, 1, 7}}

\* initialize_game without its call of board_reset: the rows keep what
\* malloc handed out (used to test C13)
initialize_game_no_reset(g1, g2) ==
    [board |-> g1, temp |-> g2, quit |-> No, playing |-> No,
     active |-> [startBtn |-> 1, stopBtn |-> 0, resetBtn |-> 1]]

initialize_game(g1, g2) ==
    LET r == board_reset(g1, g2)
    IN [board |-> r.board, temp |-> r.temp, quit |-> No, playing |-> No,
        active |-> [startBtn |-> 1, stopBtn |-> 0, resetBtn |-> 1]]

\* ------------------------------------------------------------------------
\* Events delivered by SDL_PollEvent
\* ------------------------------------------------------------------------
\* pointer positions: the middle of every tile of the two top rows
MouseXs == {kTileSize * j + 10 : j \in Cols}
MouseYs == {kTileSize * i + 10 : i \in {0, 1}}

Events ==
    {[type |-> "SDL_QUIT", button |-> 0, x |-> 0, y |-> 0],
     [type |-> "SDL_KEYDOWN", button |-> 0, x |-> 0, y |-> 0]}
    \cup [type : {"SDL_MOUSEBUTTONDOWN"}, button : {SDL_BUTTON_LEFT, SDL_BUTTON_RIGHT},
          x : MouseXs, y : MouseYs]
    \cup [type : {"SDL_MOUSEBUTTONUP"}, button : {SDL_BUTTON_LEFT, SDL_BUTTON_RIGHT},
          x : {10}, y : {10}]
    \cup [type : {"SDL_MOUSEMOTION"}, button : {0}, x : MouseXs, y : MouseYs]

\* the store written as a toggle, game.board[..][..] ^= 1 (used to test C11)
paint_toggle(b, x, y) ==
    [b EXCEPT ![y \div kTileSize][x \div kTileSize] = 1 - @]

\* the store written as an increment, game.board[..][..] += 1 (used to test
\* C14)
paint_increment(b, x, y) ==
    [b EXCEPT ![y \div kTileSize][x \div kTileSize] = @ + 1]

\* game.board[y / kTileSize][x / kTileSize] = 1
paint(b, x, y) == [b EXCEPT ![y \div kTileSize][x \div kTileSize] = 1]

\* the switch of the branch if ( ! game.playing ), lines 532-571.
\* g holds the fields of game and the local mouseButtonDown.
handle_paused(g, evt) ==
    CASE evt.type = "SDL_MOUSEBUTTONDOWN" ->
            IF evt.button = SDL_BUTTON_LEFT
            THEN IF button_is_clicked("startBtn", evt.x, evt.y)
                 THEN [g EXCEPT !.playing = Yes,
                                !.active = [resetBtn |-> 0, startBtn |-> 0, stopBtn |-> 1]]
                 ELSE IF button_is_clicked("resetBtn", evt.x, evt.y)
                 THEN LET r == board_reset(g.board, g.temp)
                      IN [g EXCEPT !.board = r.board, !.temp = r.temp, !.op = "reset"]
                 ELSE [g EXCEPT !.mouseButtonDown = Yes,
                                !.board = paint(g.board, evt.x, evt.y),
                                !.op = "paint"]
            ELSE g
      [] evt.type = "SDL_MOUSEBUTTONUP" ->
            \* the inner if ( ! game.playing ) is true here
            [g EXCEPT !.mouseButtonDown = IF evt.button # SDL_BUTTON_LEFT THEN 1 ELSE 0]
      [] evt.type = "SDL_MOUSEMOTION" ->
            \* evt.motion.y and evt.button.x: x and y lie at the same place in
            \* the motion and the button member of the SDL_Event union
            IF g.mouseButtonDown # 0
            THEN [g EXCEPT !.board = paint(g.board, evt.x, evt.y), !.op = "paint"]
            ELSE g
      [] OTHER -> g

\* the else branch with the three button_set_active calls given
\* game.playing instead of !game.playing and the reverse (used to test C20)
handle_playing_swapped(g, evt) ==
    IF evt.type = "SDL_MOUSEBUTTONDOWN"
    THEN LET p == IF button_is_clicked("stopBtn", evt.x, evt.y) THEN 0 ELSE 1
         IN [g EXCEPT !.playing = p,
                      !.active = [resetBtn |-> p, startBtn |-> p, stopBtn |-> 1 - p]]
    ELSE g

\* the else branch, lines 573-582
handle_playing(g, evt) ==
    IF evt.type = "SDL_MOUSEBUTTONDOWN"
    THEN LET p == IF button_is_clicked("stopBtn", evt.x, evt.y) THEN 0 ELSE 1
         IN [g EXCEPT !.playing = p,
                      !.active = [resetBtn |-> 1 - p, startBtn |-> 1 - p, stopBtn |-> p]]
    ELSE g

\* the event handling without the test of game.playing: the switch runs
\* for every event (used to test C8)
handle_event_no_test(g, evt) ==
    handle_paused([g EXCEPT !.quit = IF evt.type = "SDL_QUIT" THEN Yes ELSE No,
                            !.op = "none"], evt)

\* the event handling with a quit flag that is only ever set,
\* game.quit |= evt.type == SDL_QUIT (used to test C21)
handle_event_sticky_quit(g, evt) ==
    LET g0 == [g EXCEPT !.quit = IF evt.type = "SDL_QUIT" THEN Yes ELSE @,
                        !.op = "none"]
    IN IF g0.playing = No THEN handle_paused(g0, evt) ELSE handle_playing(g0, evt)

\* the body of the while (SDL_PollEvent(&evt)) loop, for one event
handle_event(g, evt) ==
    LET g0 == [g EXCEPT !.quit = IF evt.type = "SDL_QUIT" THEN Yes ELSE No,
                        !.op = "none"]
    IN IF g0.playing = No THEN handle_paused(g0, evt) ELSE handle_playing(g0, evt)

\* ------------------------------------------------------------------------
\* Initial states
\* ------------------------------------------------------------------------
\* the state when do_main_loop is entered, or when main has returned
\* EXIT_FAILURE for arguments it does not know
Init ==
    \E args \in ArgvSet, g1 \in Garbage, g2 \in Garbage :
        LET m == main(args)
            g == initialize_game(g1, g2)
        IN /\ argv = args
           /\ computeBoardFunc = m.computeBoardFunc
           /\ drawBoardFunc = m.drawBoardFunc
           /\ board = IF m.ok THEN g.board ELSE << >>
           /\ temp = IF m.ok THEN g.temp ELSE << >>
           /\ quit = g.quit
           /\ playing = g.playing
           /\ active = g.active
           /\ mouseButtonDown = 0
           /\ pc = IF m.ok THEN "poll" ELSE "failed"
           /\ polled = 0
           /\ op = "none"
           /\ call = NoCall
           /\ todo = {}
           /\ running = {}
           /\ ci = 0
           /\ writes = NoWrites
           /\ copies = NoCopies
           /\ square = NoSquare
           /\ blits = {}
           /\ di = 0
           /\ dtodo = {}
           /\ dset = {}

\* ------------------------------------------------------------------------
\* do_main_loop
\* ------------------------------------------------------------------------
\* SDL_PollEvent returns an event: one pass of the inner while loop
PollEvent(evt) ==
    /\ pc = "poll"
    /\ polled < MaxEvents
    /\ LET g == handle_event([board |-> board, temp |-> temp, quit |-> quit,
                              playing |-> playing, active |-> active,
                              mouseButtonDown |-> mouseButtonDown, op |-> op], evt)
       IN /\ board' = g.board
          /\ temp' = g.temp
          /\ quit' = g.quit
          /\ playing' = g.playing
          /\ active' = g.active
          /\ mouseButtonDown' = g.mouseButtonDown
          /\ op' = g.op
    /\ polled' = polled + 1
    /\ UNCHANGED <<argv, computeBoardFunc, drawBoardFunc, pc, call, todo, running, ci,
                   writes, copies, square, blits, di, dtodo, dset>>

\* SDL_PollEvent returns 0: the event queue is drained
PollEmpty ==
    /\ pc = "poll"
    /\ pc' = "compute"
    /\ op' = "none"
    /\ UNCHANGED <<argv, computeBoardFunc, drawBoardFunc, board, temp, quit, playing,
                   active, mouseButtonDown, polled, call, todo, running, ci,
                   writes, copies, square, blits, di, dtodo, dset>>

\* if (game.playing == Yes) is false: no advance in this iteration
SkipCompute ==
    /\ pc = "compute"
    /\ playing # Yes
    /\ pc' = "draw"
    /\ UNCHANGED <<argv, computeBoardFunc, drawBoardFunc, board, temp, quit, playing,
                   active, mouseButtonDown, polled, op, call, todo, running, ci,
                   writes, copies, square, blits, di, dtodo, dset>>

\* game.computeBoardFunc(game.board, game.temp) with board_compute
CallBoardCompute ==
    /\ pc = "compute"
    /\ playing = Yes
    /\ computeBoardFunc = "board_compute"
    /\ LET r == board_compute(board, temp)
       IN /\ board' = r.board
          /\ temp' = r.temp
    /\ call' = [made |-> TRUE, board |-> board, temp |-> temp]
    /\ op' = "advance"
    /\ pc' = "draw"
    /\ UNCHANGED <<argv, computeBoardFunc, drawBoardFunc, quit, playing, active,
                   mouseButtonDown, polled, todo, running, ci,
                   writes, copies, square, blits, di, dtodo, dset>>

\* the first parallel for bounded by kMaxHeight instead of kBoardHeight: the
\* last row is given to no worker (used to test C17)
CallBoardComputeOpenmp_short ==
    /\ pc = "compute"
    /\ playing = Yes
    /\ computeBoardFunc = "board_compute_openmp"
    /\ call' = [made |-> TRUE, board |-> board, temp |-> temp]
    /\ op' = "advance"
    /\ pc' = "omp_compute"
    /\ todo' = Rows \ {kMaxHeight}
    /\ writes' = NoWrites
    /\ copies' = NoCopies
    /\ UNCHANGED <<argv, computeBoardFunc, drawBoardFunc, board, temp, quit, playing,
                   active, mouseButtonDown, polled, running, ci,
                   square, blits, di, dtodo, dset>>

\* game.computeBoardFunc(game.board, game.temp) with board_compute_openmp:
\* the team enters the first parallel for
CallBoardComputeOpenmp ==
    /\ pc = "compute"
    /\ playing = Yes
    /\ computeBoardFunc = "board_compute_openmp"
    /\ call' = [made |-> TRUE, board |-> board, temp |-> temp]
    /\ op' = "advance"
    /\ pc' = "omp_compute"
    /\ todo' = Rows
    /\ writes' = NoWrites
    /\ copies' = NoCopies
    /\ UNCHANGED <<argv, computeBoardFunc, drawBoardFunc, board, temp, quit, playing,
                   active, mouseButtonDown, polled, running, ci,
                   square, blits, di, dtodo, dset>>

\* the first parallel for handing out an iteration without removing it from
\* the iterations still to run (used to test C12)
OmpTakeRow_keep(i) ==
    /\ pc = "omp_compute"
    /\ i \in todo
    /\ Cardinality(running) < NumWorkers
    /\ running' = running \cup {i}
    /\ UNCHANGED <<argv, computeBoardFunc, drawBoardFunc, board, temp, quit, playing,
                   active, mouseButtonDown, pc, polled, op, call, todo, ci,
                   writes, copies, square, blits, di, dtodo, dset>>

\* a worker of the team is given iteration i of the first parallel for and
\* enters board_compute_thread(board, temp, i). The team has at most
\* NumWorkers workers, each in one iteration at a time; which worker gets
\* which row, and when, is the runtime's choice.
OmpTakeRow(i) ==
    /\ pc = "omp_compute"
    /\ i \in todo
    /\ Cardinality(running) < NumWorkers
    /\ running' = running \cup {i}
    /\ todo' = todo \ {i}
    /\ UNCHANGED <<argv, computeBoardFunc, drawBoardFunc, board, temp, quit, playing,
                   active, mouseButtonDown, pc, polled, op, call, ci,
                   writes, copies, square, blits, di, dtodo, dset>>

\* the worker in iteration i completes board_compute_thread(board, temp, i).
\* The row is stored in one step: in this phase nothing writes board, and
\* row i of temp is written by this worker alone and read by none.
OmpComputeRow(i) ==
    /\ pc = "omp_compute"
    /\ i \in running
    /\ temp' = board_compute_thread(board, temp, i)
    /\ running' = running \ {i}
    /\ writes' = [writes EXCEPT ![i] = Again(@)]
    /\ UNCHANGED <<argv, computeBoardFunc, drawBoardFunc, board, quit, playing,
                   active, mouseButtonDown, pc, polled, op, call, todo, ci,
                   copies, square, blits, di, dtodo, dset>>

\* the first parallel for without the barrier at its end (nowait): the
\* copy loop starts while rows are still to be computed (used to test C1)
OmpJoinCompute_nowait ==
    /\ pc = "omp_compute"
    /\ pc' = "omp_copy"
    /\ ci' = 0
    /\ todo' = Cols
    /\ running' = {}
    /\ UNCHANGED <<argv, computeBoardFunc, drawBoardFunc, board, temp, quit, playing,
                   active, mouseButtonDown, polled, op, call,
                   writes, copies, square, blits, di, dtodo, dset>>

\* the end of the first parallel for reached as soon as every iteration
\* has been handed out, without waiting for the workers still inside
\* board_compute_thread (used to test C15)
OmpJoinCompute_handed_out ==
    /\ pc = "omp_compute"
    /\ todo = {}
    /\ pc' = "omp_copy"
    /\ ci' = 0
    /\ todo' = Cols
    /\ UNCHANGED <<argv, computeBoardFunc, drawBoardFunc, board, temp, quit, playing,
                   active, mouseButtonDown, polled, op, call, running,
                   writes, copies, square, blits, di, dtodo, dset>>

\* the implicit barrier at the end of the first parallel for; the copy
\* loop starts with i = 0 and enters its parallel for over j
OmpJoinCompute ==
    /\ pc = "omp_compute"
    /\ todo = {}
    /\ running = {}
    /\ pc' = "omp_copy"
    /\ ci' = 0
    /\ todo' = Cols
    /\ UNCHANGED <<argv, computeBoardFunc, drawBoardFunc, board, temp, quit, playing,
                   active, mouseButtonDown, polled, op, call, running,
                   writes, copies, square, blits, di, dtodo, dset>>

\* the inner parallel for handing out iteration j without removing it from
\* the iterations still to run: a second worker stores the same cell (used
\* to test C16)
OmpCopyCell_keep(j) ==
    /\ pc = "omp_copy"
    /\ j \in todo
    /\ board' = [board EXCEPT ![ci][j] = temp[ci][j]]
    /\ copies' = [copies EXCEPT ![ci][j] = Again(@)]
    /\ todo' = IF copies[ci][j] = 0 THEN todo ELSE todo \ {j}
    /\ UNCHANGED <<argv, computeBoardFunc, drawBoardFunc, temp, quit, playing,
                   active, mouseButtonDown, pc, polled, op, call, running, ci,
                   writes, square, blits, di, dtodo, dset>>

\* a worker runs iteration j of the inner parallel for: board[i][j] = temp[i][j]
OmpCopyCell(j) ==
    /\ pc = "omp_copy"
    /\ j \in todo
    /\ board' = [board EXCEPT ![ci][j] = temp[ci][j]]
    /\ todo' = todo \ {j}
    /\ copies' = [copies EXCEPT ![ci][j] = Again(@)]
    /\ UNCHANGED <<argv, computeBoardFunc, drawBoardFunc, temp, quit, playing,
                   active, mouseButtonDown, pc, polled, op, call, running, ci,
                   writes, square, blits, di, dtodo, dset>>

\* the copy loop bounded by kMaxHeight instead of kBoardHeight: the last
\* row is not copied (used to test C9)
OmpCopyRowDone_short ==
    /\ pc = "omp_copy"
    /\ todo = {}
    /\ IF ci + 1 < kMaxHeight
       THEN /\ ci' = ci + 1
            /\ todo' = Cols
            /\ pc' = pc
       ELSE /\ ci' = 0
            /\ todo' = {}
            /\ pc' = "draw"
    /\ UNCHANGED <<argv, computeBoardFunc, drawBoardFunc, board, temp, quit, playing,
                   active, mouseButtonDown, polled, op, call, running,
                   writes, copies, square, blits, di, dtodo, dset>>

\* the implicit barrier at the end of the inner parallel for, then i++;
\* after the last row the function returns
OmpCopyRowDone ==
    /\ pc = "omp_copy"
    /\ todo = {}
    /\ IF ci + 1 < kBoardHeight
       THEN /\ ci' = ci + 1
            /\ todo' = Cols
            /\ pc' = pc
       ELSE /\ ci' = 0
            /\ todo' = {}
            /\ pc' = "draw"
    /\ UNCHANGED <<argv, computeBoardFunc, drawBoardFunc, board, temp, quit, playing,
                   active, mouseButtonDown, polled, op, call, running,
                   writes, copies, square, blits, di, dtodo, dset>>

\* game.drawBoardFunc(game) and the rest of the iteration, then the test
\* of while ( ! game.quit ). The blits go to the screen only, which the
\* program never reads: the call is taken in one step here, and step by
\* step in DrawBoard .. Flip below.
Draw ==
    /\ pc = "draw"
    /\ pc' = IF quit # 0 THEN "done" ELSE "poll"
    /\ op' = "none"
    /\ call' = NoCall
    /\ writes' = NoWrites
    /\ copies' = NoCopies
    /\ UNCHANGED <<argv, computeBoardFunc, drawBoardFunc, board, temp, quit, playing,
                   active, mouseButtonDown, polled, todo, running, ci,
                   square, blits, di, dtodo, dset>>

\* ------------------------------------------------------------------------
\* The drawBoardFunc call of Draw, step by step
\* ------------------------------------------------------------------------
\* the places draw_board blits a white square at: square is a local of the
\* loop body, so every blit is at the place stored just before it
draw_board(b) ==
    {[x |-> j * kTileSize, y |-> i * kTileSize] :
        <<i, j>> \in {rc \in Rows \X Cols : b[rc[1]][rc[2]] # 0}}

\* the columns of row i whose iteration passes if ( ! board[i][j]) continue;
\* the other iterations store and blit nothing
DrawCols(b, i) == {j \in Cols : b[i][j] # 0}

\* game.drawBoardFunc(game) with draw_board
DrawBoard ==
    /\ pc = "draw"
    /\ drawBoardFunc = "draw_board"
    /\ blits' = draw_board(board)
    /\ pc' = "flip"
    /\ UNCHANGED <<argv, computeBoardFunc, drawBoardFunc, board, temp, quit, playing,
                   active, mouseButtonDown, polled, op, call, todo, running, ci,
                   writes, copies, square, di, dtodo, dset>>

\* game.drawBoardFunc(game) with draw_board_multithread: an empty loop
DrawBoardMultithread ==
    /\ pc = "draw"
    /\ drawBoardFunc = "draw_board_multithread"
    /\ blits' = {}
    /\ pc' = "flip"
    /\ UNCHANGED <<argv, computeBoardFunc, drawBoardFunc, board, temp, quit, playing,
                   active, mouseButtonDown, polled, op, call, todo, running, ci,
                   writes, copies, square, di, dtodo, dset>>

\* game.drawBoardFunc(game) with draw_board_openmp: square is initialised
\* once, the loop starts with i = 0 and enters its parallel for over j
DrawBoardOpenmp ==
    /\ pc = "draw"
    /\ drawBoardFunc = "draw_board_openmp"
    /\ pc' = "omp_draw"
    /\ square' = NoSquare
    /\ blits' = {}
    /\ di' = 0
    /\ dtodo' = DrawCols(board, 0)
    /\ UNCHANGED <<argv, computeBoardFunc, drawBoardFunc, board, temp, quit, playing,
                   active, mouseButtonDown, polled, op, call, todo, running, ci,
                   writes, copies, dset>>

\* a worker in iteration j stores square.y and square.x. square is listed
\* in shared(board,surf,square): the team has one square, and the stores of
\* two workers and the read of a blit are not ordered.
OmpDrawSquare(j) ==
    /\ pc = "omp_draw"
    /\ j \in dtodo
    /\ Cardinality(dset) < NumWorkers
    /\ square' = [x |-> j * kTileSize, y |-> di * kTileSize]
    /\ dtodo' = dtodo \ {j}
    /\ dset' = dset \cup {j}
    /\ UNCHANGED <<argv, computeBoardFunc, drawBoardFunc, board, temp, quit, playing,
                   active, mouseButtonDown, pc, polled, op, call, todo, running, ci,
                   writes, copies, blits, di>>

\* the worker in iteration j calls SDL_BlitSurface(.., surf, &square): the
\* blit goes where square says at that moment
OmpDrawBlit(j) ==
    /\ pc = "omp_draw"
    /\ j \in dset
    /\ blits' = blits \cup {square}
    /\ dset' = dset \ {j}
    /\ UNCHANGED <<argv, computeBoardFunc, drawBoardFunc, board, temp, quit, playing,
                   active, mouseButtonDown, pc, polled, op, call, todo, running, ci,
                   writes, copies, square, di, dtodo>>

\* the implicit barrier at the end of the parallel for, then i++; after
\* the last row the function returns
OmpDrawRowDone ==
    /\ pc = "omp_draw"
    /\ dtodo = {}
    /\ dset = {}
    /\ IF di + 1 < kBoardHeight
       THEN /\ di' = di + 1
            /\ dtodo' = DrawCols(board, di + 1)
            /\ pc' = pc
       ELSE /\ di' = 0
            /\ dtodo' = {}
            /\ pc' = "flip"
    /\ UNCHANGED <<argv, computeBoardFunc, drawBoardFunc, board, temp, quit, playing,
                   active, mouseButtonDown, polled, op, call, todo, running, ci,
                   writes, copies, square, blits, dset>>

\* the rest of the iteration after drawBoardFunc has returned: the frame
\* is shown by SDL_Flip, then the test of while ( ! game.quit )
Flip ==
    /\ pc = "flip"
    /\ pc' = IF quit # 0 THEN "done" ELSE "poll"
    /\ op' = "none"
    /\ call' = NoCall
    /\ writes' = NoWrites
    /\ copies' = NoCopies
    /\ square' = NoSquare
    /\ blits' = {}
    /\ UNCHANGED <<argv, computeBoardFunc, drawBoardFunc, board, temp, quit, playing,
                   active, mouseButtonDown, polled, todo, running, ci,
                   di, dtodo, dset>>

Next ==
    \/ \E evt \in Events : PollEvent(evt)
    \/ PollEmpty
    \/ SkipCompute
    \/ CallBoardCompute
    \/ CallBoardComputeOpenmp
    \/ \E i \in Rows : OmpTakeRow(i)
    \/ \E i \in Rows : OmpComputeRow(i)
    \/ OmpJoinCompute
    \/ \E j \in Cols : OmpCopyCell(j)
    \/ OmpCopyRowDone
    \/ Draw

Spec == Init /\ [][Next]_vars

\* ------------------------------------------------------------------------
\* The engine alone: a painted board, the simulation running, no more events
\* ------------------------------------------------------------------------
\* the cell (r, c) and the coordinates around it that lie on the board
Around(r, c) ==
    {rc \in Rows \X Cols : rc[1] - r \in {-1, 0, 1} /\ rc[2] - c \in {-1, 0, 1}}

BoardOf(alive) == [i \in Rows |-> [j \in Cols |-> IF <<i, j>> \in alive THEN 1 ELSE 0]]

\* the boards whose alive cells all lie in one cell's neighbourhood: what the
\* user has painted before pressing Start
PaintedBoards ==
    UNION {{BoardOf(alive) : alive \in SUBSET Around(rc[1], rc[2])} : rc \in Rows \X Cols}

\* do_main_loop after the user has painted a board and pressed Start
InitEngine ==
    /\ argv \in {<< >>, <<"--openmp">>}
    /\ computeBoardFunc = main(argv).computeBoardFunc
    /\ drawBoardFunc = main(argv).drawBoardFunc
    /\ board \in PaintedBoards
    /\ temp = AllDead
    /\ quit = No
    /\ playing = Yes
    /\ active = [resetBtn |-> 0, startBtn |-> 0, stopBtn |-> 1]
    /\ mouseButtonDown = 0
    /\ pc = "poll"
    /\ polled = 0
    /\ op = "none"
    /\ call = NoCall
    /\ todo = {}
    /\ running = {}
    /\ ci = 0
    /\ writes = NoWrites
    /\ copies = NoCopies
    /\ square = NoSquare
    /\ blits = {}
    /\ di = 0
    /\ dtodo = {}
    /\ dset = {}

NextEngine ==
    \/ PollEmpty
    \/ CallBoardCompute
    \/ CallBoardComputeOpenmp
    \/ \E i \in Rows : OmpTakeRow(i)
    \/ \E i \in Rows : OmpComputeRow(i)
    \/ OmpJoinCompute
    \/ \E j \in Cols : OmpCopyCell(j)
    \/ OmpCopyRowDone
    \/ Draw

SpecEngine == InitEngine /\ [][NextEngine]_vars

\* the steps of the team inside board_compute_openmp
OmpProgress ==
    \/ \E i \in Rows : OmpTakeRow(i)
    \/ \E i \in Rows : OmpComputeRow(i)
    \/ OmpJoinCompute
    \/ \E j \in Cols : OmpCopyCell(j)
    \/ OmpCopyRowDone

\* the painted boards with alive cells at and around cell (1, 1) only
InitEngineFair ==
    /\ InitEngine
    /\ board \in {BoardOf(alive) : alive \in SUBSET Around(1, 1)}

\* the engine with a scheduler that does not starve the team: while a step
\* of the team can be taken, one is eventually taken
SpecEngineFair == InitEngineFair /\ [][NextEngine]_vars /\ WF_vars(OmpProgress)

\* ------------------------------------------------------------------------
\* The drawing: do_main_loop paused on a painted board, no event arriving
\* ------------------------------------------------------------------------
InitDraw ==
    /\ argv \in {<< >>, <<"--openmp">>, <<"--thread">>}
    /\ computeBoardFunc = main(argv).computeBoardFunc
    /\ drawBoardFunc = main(argv).drawBoardFunc
    /\ board \in PaintedBoards
    /\ temp = AllDead
    /\ quit = No
    /\ playing = No
    /\ active = [resetBtn |-> 1, startBtn |-> 1, stopBtn |-> 0]
    /\ mouseButtonDown = 0
    /\ pc = "poll"
    /\ polled = 0
    /\ op = "none"
    /\ call = NoCall
    /\ todo = {}
    /\ running = {}
    /\ ci = 0
    /\ writes = NoWrites
    /\ copies = NoCopies
    /\ square = NoSquare
    /\ blits = {}
    /\ di = 0
    /\ dtodo = {}
    /\ dset = {}

NextDraw ==
    \/ PollEmpty
    \/ SkipCompute
    \/ DrawBoard
    \/ DrawBoardMultithread
    \/ DrawBoardOpenmp
    \/ \E j \in Cols : OmpDrawSquare(j)
    \/ \E j \in Cols : OmpDrawBlit(j)
    \/ OmpDrawRowDone
    \/ Flip

SpecDraw == InitDraw /\ [][NextDraw]_vars

\* ------------------------------------------------------------------------
\* Conway's rule stated on sets, for the properties below
\* ------------------------------------------------------------------------
\* the coordinates among the 8 around (r, c) that lie inside the board
InGrid(r, c) ==
    {rc \in {<<r + dr, c + dc>> : dr \in {-1, 0, 1}, dc \in {-1, 0, 1}} :
        /\ rc # <<r, c>>
        /\ rc[1] >= 0 /\ rc[1] < kBoardHeight
        /\ rc[2] >= 0 /\ rc[2] < kBoardWidth}

AliveAround(b, r, c) == Cardinality({rc \in InGrid(r, c) : b[rc[1]][rc[2]] = 1})

Conway(self, n) == (self = 0 /\ n = 3) \/ (self = 1 /\ (n = 2 \/ n = 3))

NextGeneration(b) ==
    [r \in Rows |-> [c \in Cols |->
        IF Conway(b[r][c], AliveAround(b, r, c)) THEN 1 ELSE 0]]

\* an advance was called in this iteration of the main loop and has returned
Returned == pc = "draw" /\ call.made

\* ------------------------------------------------------------------------
\* C1. Output equivalence: when board_compute_openmp returns, the current
\* buffer is cell for cell what board_compute leaves from the same buffers,
\* whatever rows the workers took and however they interleaved.
\* ------------------------------------------------------------------------
C1_OutputEquivalence ==
    (Returned /\ computeBoardFunc = "board_compute_openmp")
        => board = board_compute(call.board, call.temp).board

\* a parallel advance that changed the board, started with a next buffer
\* still holding an older generation
C1_Witness ==
    /\ Returned
    /\ computeBoardFunc = "board_compute_openmp"
    /\ board # call.board
    /\ board # AllDead
    /\ call.temp # AllDead
    /\ call.temp # board

\* ------------------------------------------------------------------------
\* C2. Transition rule: the value board_compute_thread stores for a cell is
\* alive exactly when the cell was dead with count 3 or alive with count 2
\* or 3, for every count 0..8; a dead cell with 2 or with 4 live neighbours
\* stays dead.
\* ------------------------------------------------------------------------
C2_TransitionRule ==
    Returned =>
        \A i \in Rows, j \in Cols :
            LET self == call.board[i][j]
                n == count(call.board, i, j)
            IN /\ n \in 0 .. 8
               /\ temp[i][j] \in {0, 1}
               /\ temp[i][j] = 1 <=>
                     ((self = 0 /\ n = 3) \/ (self = 1 /\ (n = 2 \/ n = 3)))
               /\ (self = 0 /\ n \in {2, 4}) => temp[i][j] = 0

\* one advance in which a dead cell with 2, a dead cell with 4 and a dead
\* cell with 3 live neighbours occur, and an alive cell with 4 that dies
C2_Witness ==
    /\ Returned
    /\ \E i \in Rows, j \in Cols :
          call.board[i][j] = 0 /\ count(call.board, i, j) = 2 /\ temp[i][j] = 0
    /\ \E i \in Rows, j \in Cols :
          call.board[i][j] = 0 /\ count(call.board, i, j) = 4 /\ temp[i][j] = 0
    /\ \E i \in Rows, j \in Cols :
          call.board[i][j] = 0 /\ count(call.board, i, j) = 3 /\ temp[i][j] = 1
    /\ \E i \in Rows, j \in Cols :
          call.board[i][j] = 1 /\ count(call.board, i, j) = 4 /\ temp[i][j] = 0

\* ------------------------------------------------------------------------
\* C3. Clipped neighbour counting: the count used for cell (row, col) is the
\* number of alive cells among the surrounding coordinates that lie inside
\* the board, nothing outside is counted and nothing wraps around; a dead
\* cell at (0,0) whose neighbours (0,1), (1,0), (1,1) are alive becomes alive.
\* ------------------------------------------------------------------------
C3_ClippedCount ==
    Returned =>
        /\ \A i \in Rows, j \in Cols :
              /\ count(call.board, i, j) = AliveAround(call.board, i, j)
              /\ temp[i][j] = 1 <=>
                    Conway(call.board[i][j], AliveAround(call.board, i, j))
        /\ (/\ call.board[0][0] = 0
            /\ call.board[0][1] = 1
            /\ call.board[1][0] = 1
            /\ call.board[1][1] = 1) => board[0][0] = 1

\* the corner case of the claim, with alive cells on the opposite edges that
\* a wrap-around would count
C3_Witness ==
    /\ Returned
    /\ call.board[0][0] = 0
    /\ call.board[0][1] = 1
    /\ call.board[1][0] = 1
    /\ call.board[1][1] = 1
    /\ board[0][0] = 1

\* ------------------------------------------------------------------------
\* C4. Whole-generation postcondition: when an advance returns, every cell
\* of the current buffer holds Conway's rule applied to the current buffer
\* as it was at the call; neither cells already updated in this generation
\* nor the old contents of the next buffer play a part.
\* ------------------------------------------------------------------------
C4_WholeGeneration ==
    Returned =>
        /\ board = NextGeneration(call.board)
        /\ temp = board

\* a sequential advance that changed the board while the next buffer held
\* something else than the new generation
C4_Witness ==
    /\ Returned
    /\ computeBoardFunc = "board_compute"
    /\ board # call.board
    /\ board # AllDead
    /\ call.temp # AllDead
    /\ call.temp # NextGeneration(call.board)

\* ------------------------------------------------------------------------
\* C5. Blinker: a horizontal line of three alive cells, one cell or more
\* away from every edge, becomes the vertical line through its middle, and
\* that vertical line becomes the horizontal line again (period 2), with
\* either strategy.
\* ------------------------------------------------------------------------
Horizontal(r, c) == BoardOf({<<r, c - 1>>, <<r, c>>, <<r, c + 1>>})
Vertical(r, c) == BoardOf({<<r - 1, c>>, <<r, c>>, <<r + 1, c>>})
\* middles (r, c) of the horizontal lines that touch no edge
BlinkerMiddles ==
    {rc \in Rows \X Cols :
        /\ rc[1] >= 1 /\ rc[1] <= kBoardHeight - 2
        /\ rc[2] - 1 >= 1 /\ rc[2] + 1 <= kBoardWidth - 2}

C5_Blinker ==
    Returned =>
        \A rc \in BlinkerMiddles :
            /\ call.board = Horizontal(rc[1], rc[2]) => board = Vertical(rc[1], rc[2])
            /\ call.board = Vertical(rc[1], rc[2]) => board = Horizontal(rc[1], rc[2])

\* the second advance of the oscillation: the next buffer still holds the
\* vertical line the first advance produced
C5_Witness ==
    /\ Returned
    /\ \E rc \in BlinkerMiddles :
          /\ call.board = Vertical(rc[1], rc[2])
          /\ call.temp = Vertical(rc[1], rc[2])
          /\ board = Horizontal(rc[1], rc[2])

\* ------------------------------------------------------------------------
\* C6. Still life: a board whose only alive cells are a 2x2 block, anywhere
\* on the board, edges and corners included, is unchanged by an advance,
\* with either strategy.
\* ------------------------------------------------------------------------
Block(r, c) == BoardOf({<<r, c>>, <<r, c + 1>>, <<r + 1, c>>, <<r + 1, c + 1>>})
BlockCorners == {rc \in Rows \X Cols : rc[1] + 1 \in Rows /\ rc[2] + 1 \in Cols}

C6_StillLife ==
    Returned =>
        \A rc \in BlockCorners :
            call.board = Block(rc[1], rc[2]) => board = call.board

\* a block in the bottom right corner after a second advance
C6_Witness ==
    /\ Returned
    /\ call.board = Block(kBoardHeight - 2, kBoardWidth - 2)
    /\ call.temp = call.board
    /\ board = call.board

\* ------------------------------------------------------------------------
\* C7. Reset: board_reset leaves every cell of both buffers dead, from any
\* contents, and a second board_reset changes nothing.
\* ------------------------------------------------------------------------
C7_Reset ==
    pc # "failed" =>
        /\ LET r == board_reset(board, temp)
           IN /\ r.board = AllDead
              /\ r.temp = AllDead
              /\ board_reset(r.board, r.temp) = r
        /\ op = "reset" => (board = AllDead /\ temp = AllDead)

\* the Reset button was handled after the user had painted
C7_Witness ==
    /\ op = "reset"
    /\ mouseButtonDown # 0
    /\ polled >= 2
    /\ board = AllDead
    /\ temp = AllDead

\* ------------------------------------------------------------------------
\* C8. Paint and reset only while paused, advance only while running: a
\* step that paints or resets is an event handled with playing = No and no
\* advance in progress; an advance is called only with playing = Yes; while
\* an advance is in progress every step is a step of that advance.
\* ------------------------------------------------------------------------
InProgress == pc \in {"omp_compute", "omp_copy"}

C8_Step ==
    /\ op' \in {"paint", "reset"} =>
          /\ pc = "poll"
          /\ playing = No
          /\ playing' = No
          /\ ~InProgress
          /\ ~call.made
    /\ (call'.made /\ ~call.made) => (playing = Yes /\ op' = "advance")
    /\ InProgress => (op' = "advance" /\ playing' = Yes)

C8_PausedOnly == [][C8_Step]_vars

\* a cell was painted
C8_Witness ==
    /\ op = "paint"
    /\ playing = No
    /\ board # AllDead

\* ------------------------------------------------------------------------
\* C9. No partial generation is observable: when the event handler or the
\* renderer is about to read the current buffer, no advance is in progress
\* and the buffer holds a whole generation: the one before the advance, or,
\* after an advance, the complete new one.
\* ------------------------------------------------------------------------
C9_NoPartialGeneration ==
    /\ pc = "poll" =>
          (~call.made /\ running = {} /\ todo = {})
    /\ pc = "draw" =>
          /\ running = {}
          /\ todo = {}
          /\ call.made => board = NextGeneration(call.board)

\* the renderer is about to draw the result of a parallel advance that
\* changed the board
C9_Witness ==
    /\ Returned
    /\ computeBoardFunc = "board_compute_openmp"
    /\ board # call.board
    /\ board # AllDead

\* ------------------------------------------------------------------------
\* C10. Strategy selection: the compute function is set at startup from the
\* arguments, to board_compute when there is none and to board_compute or
\* board_compute_openmp otherwise, and is never assigned again.
\* ------------------------------------------------------------------------
C10_Strategy ==
    /\ [](pc # "failed" =>
            /\ computeBoardFunc \in {"board_compute", "board_compute_openmp"}
            /\ argv = << >> => computeBoardFunc = "board_compute"
            /\ computeBoardFunc = "board_compute_openmp" <=> argv = <<"--openmp">>)
    /\ [][computeBoardFunc' = computeBoardFunc]_vars

\* a second advance of a run started with --openmp
C10_Witness ==
    /\ Returned
    /\ argv = <<"--openmp">>
    /\ computeBoardFunc = "board_compute_openmp"
    /\ call.temp # AllDead

\* ------------------------------------------------------------------------
\* C11. Paint frame condition: a step that paints sets one cell of board
\* alive and changes nothing else: every other cell of board, every cell of
\* temp and playing keep their values. Painting a cell that is alive leaves
\* board as it was, and no paint turns an alive cell dead.
\* ------------------------------------------------------------------------
AliveCells(b) == {rc \in Rows \X Cols : b[rc[1]][rc[2]] # 0}

C11_Step ==
    op' = "paint" =>
        /\ \E rc \in Rows \X Cols :
              /\ board' = [board EXCEPT ![rc[1]][rc[2]] = 1]
              /\ board[rc[1]][rc[2]] = 1 => board' = board
        /\ AliveCells(board) \subseteq AliveCells(board')
        /\ temp' = temp
        /\ playing' = playing

C11_PaintFrame == [][C11_Step]_vars

\* a paint has just been handled on a board that had alive cells, which it
\* kept
C11_Witness ==
    /\ op = "paint"
    /\ pc = "poll"
    /\ Cardinality(AliveCells(board)) >= 2

\* ------------------------------------------------------------------------
\* C12. Every advance completes: an advance that has returned has no worker
\* still in a row, no iteration left to run and the commit complete (board
\* equals temp); and under a fair scheduler an advance that is in progress
\* eventually returns.
\* ------------------------------------------------------------------------
C12_AdvanceCompletes ==
    /\ [](Returned => (running = {} /\ todo = {} /\ board = temp))
    /\ (InProgress ~> Returned)

\* a parallel advance that went through both phases has returned
C12_Witness ==
    /\ Returned
    /\ computeBoardFunc = "board_compute_openmp"
    /\ running = {}
    /\ board = temp
    /\ temp # call.temp

\* ------------------------------------------------------------------------
\* C13. Zero-initialised grid: when do_main_loop starts, before any event
\* has been polled, every cell of board and of temp is dead, whatever the
\* allocated rows held.
\* ------------------------------------------------------------------------
C13_ZeroInitialised ==
    (pc # "failed" /\ polled = 0) => (board = AllDead /\ temp = AllDead)

\* the main loop is at its first poll with both boards dead
C13_Witness ==
    /\ pc = "poll"
    /\ polled = 0
    /\ op = "none"
    /\ board = AllDead
    /\ temp = AllDead

\* ------------------------------------------------------------------------
\* C14. Binary cells: in every state of a run every cell of board and of
\* temp holds 0 or 1 and nothing else.
\* ------------------------------------------------------------------------
C14_BinaryCells == pc # "failed" => (board \in Boards /\ temp \in Boards)

\* painted cells have gone through an advance that changed both boards
C14_Witness ==
    /\ Returned
    /\ board # AllDead
    /\ board # call.board
    /\ temp # call.temp

\* ------------------------------------------------------------------------
\* C15. Barrier before commit: while workers compute rows of temp no cell
\* of board has been replaced, and once the copy phase runs no worker is
\* left in a row and every row of temp has been stored, so no copy reads a
\* row still being written and no worker reads a replaced cell.
\* ------------------------------------------------------------------------
C15_BarrierBeforeCommit ==
    /\ pc = "omp_compute" => board = call.board
    /\ pc = "omp_copy" => (running = {} /\ \A i \in Rows : writes[i] = 1)
    /\ (InProgress /\ (running # {} \/ \E i \in Rows : writes[i] = 0)) =>
          (board = call.board /\ copies = NoCopies)

\* the commit is under way: some cells of board are replaced, others not
C15_Witness ==
    /\ pc = "omp_copy"
    /\ running = {}
    /\ board # call.board
    /\ board # temp

\* ------------------------------------------------------------------------
\* C16. Race freedom of the parallel advance: in the compute phase no step
\* changes board, and a row of temp changes only by the worker that was
\* given that row, which no other worker holds or gets; in the copy phase
\* no step changes temp, and a cell of board changes only by the iteration
\* of its column, which runs once. No row of temp and no cell of board is
\* stored more than once within an advance.
\* ------------------------------------------------------------------------
C16_Exclusive ==
    InProgress =>
        /\ \A i \in Rows : writes[i] <= 1
        /\ \A i \in Rows : \A j \in Cols : copies[i][j] <= 1
        /\ pc = "omp_compute" =>
              /\ running \cap todo = {}
              /\ \A i \in running : writes[i] = 0
              /\ copies = NoCopies

C16_Step ==
    /\ pc = "omp_compute" =>
          /\ board' = board
          /\ \A i \in Rows : temp'[i] # temp[i] => (i \in running /\ i \notin running')
    /\ pc = "omp_copy" =>
          /\ temp' = temp
          /\ \A i \in Rows : \A j \in Cols :
                board'[i][j] # board[i][j] => (i = ci /\ j \in todo /\ j \notin todo')

C16_RaceFree == []C16_Exclusive /\ [][C16_Step]_vars

\* the team is full, each worker in a row of its own, after another row of
\* temp has been stored
C16_Witness ==
    /\ pc = "omp_compute"
    /\ Cardinality(running) = NumWorkers
    /\ writes # NoWrites
    /\ temp # call.temp

\* ------------------------------------------------------------------------
\* C17. Row-partition coverage: in the compute phase of the parallel
\* advance a row of temp has been stored once when it is neither waiting
\* nor in a worker, and not at all otherwise; when the phase is over every
\* row has been stored exactly once, none skipped and none stored twice,
\* and every column of every row holds its cell of the next generation.
\* ------------------------------------------------------------------------
C17_RowPartition ==
    /\ pc = "omp_compute" =>
          \A i \in Rows : writes[i] = IF i \in todo \cup running THEN 0 ELSE 1
    /\ (pc = "omp_copy" \/ (Returned /\ computeBoardFunc = "board_compute_openmp")) =>
          \A i \in Rows : writes[i] = 1
    /\ (pc = "omp_copy" /\ ci = 0 /\ todo = Cols) => temp = NextGeneration(call.board)

\* the compute phase has just ended with every row stored
C17_Witness ==
    /\ pc = "omp_copy"
    /\ ci = 0
    /\ todo = Cols
    /\ \A i \in Rows : writes[i] = 1
    /\ temp # call.temp

\* ------------------------------------------------------------------------
\* C18. Parallel drawing is position-correct: when draw_board_openmp has
\* returned, the white squares it has blitted are at exactly the places
\* where draw_board blits them for the same board: one at
\* (j * kTileSize, i * kTileSize) for every alive cell (i, j), none
\* elsewhere, however the workers interleaved.
\* ------------------------------------------------------------------------
Tiles(b) ==
    {[x |-> rc[2] * kTileSize, y |-> rc[1] * kTileSize] : rc \in AliveCells(b)}

C18_ParallelDrawing ==
    (pc = "flip" /\ drawBoardFunc = "draw_board_openmp") => blits = Tiles(board)

\* draw_board itself blits at those places
C18_SequentialDrawing ==
    (pc = "flip" /\ drawBoardFunc = "draw_board") => blits = Tiles(board)

\* ------------------------------------------------------------------------
\* C19. Play/pause state machine: the game starts paused. playing goes from
\* No to Yes only when a press of the left button inside the Start button
\* is handled while paused, and from Yes to No only when a press of a mouse
\* button inside the Stop button is handled while playing; any other event
\* leaves playing as it is, and no step other than the handling of an
\* event changes it.
\* ------------------------------------------------------------------------
Inside(btn, x, y) ==
    /\ x \in (position(btn).x + 1)..(position(btn).x + SurfW - 1)
    /\ y \in (position(btn).y + 1)..(position(btn).y + SurfH - 1)

PlayingAfter(p, evt) ==
    IF p = No
    THEN IF /\ evt.type = "SDL_MOUSEBUTTONDOWN"
            /\ evt.button = SDL_BUTTON_LEFT
            /\ Inside("startBtn", evt.x, evt.y)
         THEN Yes ELSE No
    ELSE IF evt.type = "SDL_MOUSEBUTTONDOWN" /\ Inside("stopBtn", evt.x, evt.y)
         THEN No ELSE Yes

\* the fields the handler works on, as they are now
GameNow ==
    [board |-> board, temp |-> temp, quit |-> quit, playing |-> playing,
     active |-> active, mouseButtonDown |-> mouseButtonDown, op |-> op]

\* whatever event is polled next, the handler leaves playing as claimed
C19_Handler ==
    pc = "poll" =>
        \A evt \in Events : handle_event(GameNow, evt).playing = PlayingAfter(playing, evt)

\* a step that changes playing is the handling of an event claimed to
\* change it
C19_Step ==
    playing' # playing =>
        \E evt \in Events : PollEvent(evt) /\ playing' = PlayingAfter(playing, evt)

C19_PlayPause ==
    /\ [](polled = 0 => playing = No)
    /\ []C19_Handler
    /\ [][C19_Step]_vars

\* the game was started, and later events were handled while it played
C19_Witness ==
    /\ pc = "poll"
    /\ playing = Yes
    /\ polled >= 3
    /\ board # AllDead

\* ------------------------------------------------------------------------
\* C20. Button flags mirror the run state: whenever the loop is between two
\* events (each event handled as a whole), startBtn and resetBtn are active
\* exactly when playing is No, and stopBtn is active exactly when playing
\* is Yes.
\* ------------------------------------------------------------------------
C20_ButtonsMirror ==
    /\ active.startBtn = 1 <=> playing = No
    /\ active.resetBtn = 1 <=> playing = No
    /\ active.stopBtn = 1 <=> playing = Yes
    /\ playing \in {Yes, No}
    /\ \A btn \in {"startBtn", "stopBtn", "resetBtn"} : active[btn] \in {0, 1}

\* the press on Start has been handled and the game plays: the flags have
\* followed
C20_Witness ==
    /\ Returned
    /\ polled >= 2
    /\ playing = Yes
    /\ active = [resetBtn |-> 0, startBtn |-> 0, stopBtn |-> 1]

\* ------------------------------------------------------------------------
\* C21. Quit handling: quit is recomputed from every polled event, Yes for
\* a quit event and No for any other, whatever it was before, so a quit
\* event followed by another event in the same drain does not end the
\* loop. Nothing else changes quit. The loop ends only at the end of an
\* iteration, exactly when quit is set then, after the advance of that
\* iteration (if playing) and its draw; an iteration that does not end the
\* loop leaves quit No for the next one.
\* ------------------------------------------------------------------------
IsQuit(evt) == IF evt.type = "SDL_QUIT" THEN Yes ELSE No

\* whatever event is polled next, quit becomes what that event says
C21_Handler ==
    pc = "poll" =>
        \A evt \in Events : handle_event(GameNow, evt).quit = IsQuit(evt)

C21_Step ==
    /\ quit' # quit =>
          \E evt \in Events : PollEvent(evt) /\ quit' = IsQuit(evt)
    /\ (pc' = "done" /\ pc # "done") =>
          (pc = "draw" /\ quit = Yes /\ (playing = Yes => call.made))
    /\ (pc = "draw" /\ pc' # "draw") =>
          /\ pc' = IF quit = Yes THEN "done" ELSE "poll"
          /\ pc' = "poll" => quit' = No

C21_QuitHandling ==
    /\ [](polled = 0 => quit = No)
    /\ []C21_Handler
    /\ [][C21_Step]_vars

\* the loop has ended while the game was playing, after several events
C21_Witness ==
    /\ pc = "done"
    /\ quit = Yes
    /\ playing = Yes
    /\ polled >= 3

====
